---- MODULE Spec2Model ----
(***************************************************************************)
(* Linear asset-pricing factor model estimators                            *)
(* (linearmodels/asset_pricing/model.py): TradedFactorModel,               *)
(* LinearFactorModel (two-pass) and LinearFactorModelGMM.                  *)
(*                                                                         *)
(* Matrices are modelled by their labelled columns and by where their      *)
(* content comes from; floating-point values are modelled only where the   *)
(* control flow reads them: the GMM objective values, in units of 1e-7,    *)
(* and whether numpy.linalg.inv finds the matrix it is handed singular.    *)
(* The minimizer's answers and inv's verdicts are inputs of the model.     *)
(***************************************************************************)
EXTENDS Integers, Sequences, FiniteSets, TLC

\* ------------------------------------------------------------------ bounds
MaxN == 2
MaxK == 2
MaxSteps == 3
MaxObj == 2
\* Observations per series in the arrays whose entries are followed.
NObs == 2

\* The tolerance 1e-6 of the step loop, in units of 1e-7.
Tol == 10

\* Objective values a minimizer may return, in units of 1e-7: multiples of
\* half the tolerance, so that differences below, at and above the
\* tolerance all occur.
ObjVals == {5 * v : v \in 0..MaxObj}

Estimators == {"LinearFactorModel", "LinearFactorModelGMM", "TradedFactorModel"}
CallStyles == {"positional", "keyword"}
\* cov_type values: the documented names, the alias TradedFactorModel.fit
\* also takes, and a name no estimator knows.
CovTypes == {"unadjusted", "robust", "kernel", "heteroskedastic"}

\* ------------------------------------------------------------ input data
ColName(src, idx) == [src |-> src, idx |-> idx]
NoCol == [src |-> "", idx |-> 0]
RiskFree == [src |-> "risk_free", idx |-> 0]

\* A labelled return matrix with n columns; src says which data it holds
\* ("P" the test portfolios, "F" the factors), data says whether the stored
\* array still holds the values it was built with.
Mat(src, n) ==
    [src |-> src, cols |-> [c \in 1..n |-> ColName(src, c)], data |-> "raw"]

\* IVData(x, var_name=...): the wrapped matrix, remembering the role it was
\* wrapped under.
IVData(x, var_name) ==
    [src |-> x.src, cols |-> x.cols, data |-> x.data, var_name |-> var_name]

NCols(m) == Len(m.cols)

\* ---------------------------------------------------------- constructors
\* TradedFactorModel.__init__(self, portfolios, factors)
TradedInit(cls, portfolios, factors) ==
    [cls |-> cls,
     portfolios |-> IVData(portfolios, "portfolio"),
     factors |-> IVData(factors, "factor"),
     name |-> cls,
     sigma |-> "unset"]

\* LinearFactorModel.__init__(self, portfolios, factors, *, sigma=None)
LinearInit(cls, portfolios, factors, sigma) ==
    [TradedInit(cls, portfolios, factors) EXCEPT !.sigma = sigma]

\* LinearFactorModelGMM.__init__(self, factors, portfolios): the first
\* parameter is named factors, the second portfolios, and they are handed
\* on to TradedFactorModel.__init__ in that order.
GMMInit(cls, factors, portfolios) ==
    TradedInit(cls, factors, portfolios)

\* A constructor call by a caller holding a portfolio matrix P and a factor
\* matrix F: positionally in the documented order (portfolios, factors), or
\* by keyword (portfolios=P, factors=F).
Construct(cls, style, P, F) ==
    IF cls = "TradedFactorModel" THEN TradedInit(cls, P, F)
    ELSE IF cls = "LinearFactorModel" THEN LinearInit(cls, P, F, "None")
    ELSE IF style = "positional"
         THEN GMMInit(cls, P, F)     \* first parameter := P, second := F
         ELSE GMMInit(cls, F, P)     \* factors := F, portfolios := P

\* ------------------------------------------------------- parameter names
PName(kind, p, f) == [kind |-> kind, p |-> p, f |-> f]

\* 'alpha-<portfolio>' followed by 'beta-<portfolio>-<factor>' for every
\* factor: the inner loops of the param_names construction.
AlphaBetaNames(p, fcols) ==
    <<PName("alpha", p, NoCol)>> \o [j \in 1..Len(fcols) |-> PName("beta", p, fcols[j])]

BetaNames(p, fcols) ==
    [j \in 1..Len(fcols) |-> PName("beta", p, fcols[j])]

LambdaNames(fcols) ==
    [j \in 1..Len(fcols) |-> PName("lambda", NoCol, fcols[j])]

MuNames(fcols) ==
    [j \in 1..Len(fcols) |-> PName("mu", NoCol, fcols[j])]

RECURSIVE PortfolioLoop(_, _, _)
\* for portfolio in self.portfolios.cols: append the block of that portfolio
PortfolioLoop(pcols, fcols, withAlpha) ==
    IF pcols = << >> THEN << >>
    ELSE (IF withAlpha THEN AlphaBetaNames(Head(pcols), fcols)
                       ELSE BetaNames(Head(pcols), fcols))
         \o PortfolioLoop(Tail(pcols), fcols, withAlpha)

\* nrf = int(not excess_returns)
Nrf(excess_returns) == IF excess_returns THEN 0 ELSE 1

\* p = self.portfolios.ndarray and f = self.factors.ndarray: the data every
\* estimate of a fit is computed from.
FitInputs(model) ==
    [portfolios |-> [src |-> model.portfolios.src, data |-> model.portfolios.data],
     factors |-> [src |-> model.factors.src, data |-> model.factors.data]]

\* ------------------------------------------------------- array operations
\* A two-dimensional array is the sequence of its rows. An entry is
\* [row |-> t, val |-> v]: the observation it belongs to and what it is an
\* observation of. Index vectors hold numpy's 0-based indices.
Const == [src |-> "const", idx |-> 0]
Mixed == [mixed |-> TRUE]

\* A sequence, and an array, written out entry by entry.
Flat(seq) == seq \o << >>
Array(a) == Flat([t \in 1..Len(a) |-> Flat(a[t])])

NRows(a) == Len(a)
NColumns(a) == IF a = << >> THEN 0 ELSE Len(a[1])

\* self.portfolios.ndarray, self.factors.ndarray
Ndarray(m, nobs) ==
    Array([t \in 1..nobs |-> [c \in 1..NCols(m) |-> [row |-> t, val |-> m.cols[c]]]])

\* np.ones((nobs, 1))
OnesColumn(nobs) == [t \in 1..nobs |-> <<[row |-> t, val |-> Const]>>]

\* np.c_[a, b]
CBind(a, b) == Array([t \in 1..NRows(a) |-> a[t] \o b[t]])

\* eps = p - fc @ b: the residual of each portfolio at each observation
Residuals(p) ==
    Array([t \in 1..NRows(p) |->
        [c \in 1..NColumns(p) |-> [row |-> p[t][c].row, val |-> [resid |-> p[t][c].val]]]])

\* fe = f - f.mean(0) (or f - mu.T): the centred factors
Centred(f) ==
    Array([t \in 1..NRows(f) |->
        [c \in 1..NColumns(f) |-> [row |-> f[t][c].row, val |-> [fe |-> f[t][c].val]]]])

\* np.tile(a, (1, reps)) and np.tile(a, (reps, 1))
TileColumns(a, reps) ==
    Array([t \in 1..NRows(a) |->
        [c \in 1..(NColumns(a) * reps) |-> a[t][((c - 1) % NColumns(a)) + 1]]])
TileRows(a, reps) ==
    Array([t \in 1..(NRows(a) * reps) |-> a[((t - 1) % NRows(a)) + 1]])

\* a.T
Transpose(a) ==
    Array([c \in 1..NColumns(a) |-> [t \in 1..NRows(a) |-> a[t][c]]])

\* a.ravel() in C (row-major) order and a.ravel(order='F') (column-major)
RavelC(a) ==
    Flat([x \in 1..(NRows(a) * NColumns(a)) |->
        a[((x - 1) \div NColumns(a)) + 1][((x - 1) % NColumns(a)) + 1]])
RavelF(a) ==
    Flat([x \in 1..(NRows(a) * NColumns(a)) |->
        a[((x - 1) % NRows(a)) + 1][((x - 1) \div NRows(a)) + 1]])

\* np.reshape(flat, (r, c)) in C order and with order='F'
ReshapeC(flat, r, c) ==
    Array([t \in 1..r |-> [cc \in 1..c |-> flat[(t - 1) * c + cc]]])
ReshapeF(flat, r, c) ==
    Array([t \in 1..r |-> [cc \in 1..c |-> flat[(cc - 1) * r + t]]])

\* The product of a regressor and a residual, in either order.
Product(u, v) ==
    IF DOMAIN u = {"resid"} THEN [x |-> v, e |-> u.resid]
    ELSE [x |-> u, e |-> v.resid]

\* a * b, elementwise: an entry of the product belongs to an observation
\* only if both factors belong to that observation
Times(a, b) ==
    Array([t \in 1..NRows(a) |->
        [c \in 1..NColumns(a) |->
            [row |-> IF a[t][c].row = b[t][c].row THEN a[t][c].row ELSE 0,
             val |-> Product(a[t][c].val, b[t][c].val)]]])

\* What column c (1-based) of a is the series of: the common val of its
\* entries when row t of the column belongs to observation t, else Mixed.
ColumnLabel(a, c) ==
    IF \A t \in 1..NRows(a) : a[t][c].row = t /\ a[t][c].val = a[1][c].val
    THEN a[1][c].val
    ELSE Mixed

ColumnLabels(a) == Flat([c \in 1..NColumns(a) |-> ColumnLabel(a, c)])

\* np.arange(a, b)
Arange(a, b) == Flat([x \in 1..(b - a) |-> a + x - 1])

\* a[start:stop:step] as an index vector
Strided(start, stop, step) ==
    Flat([x \in 1..((stop - start + step - 1) \div step) |-> start + (x - 1) * step])

\* seq[index]
Take(seq, index) == Flat([x \in 1..Len(index) |-> seq[index[x] + 1]])

\* a[:, 0] = column
SetFirstColumn(a, column) ==
    Array([t \in 1..NRows(a) |->
        [c \in 1..NColumns(a) |-> IF c = 1 THEN column[t] ELSE a[t][c]]])

\* The parameter whose covariance slot a position is, when it cannot be
\* told from the moments and the Jacobian.
Unidentified == PName("unidentified", NoCol, NoCol)

\* np.kron(np.eye(nportfolio), m) with m of nfactor + 1 rows and columns:
\* position k (0-based) lies in diagonal block k // (nfactor + 1), at
\* coefficient k % (nfactor + 1) of the regression on [1, factors]. It is
\* the slot of that coefficient of that portfolio's regression when the
\* moment in that position is that regressor times that portfolio's
\* residual. intercept names coefficient 0.
LoadingSlot(label, k, pcols, fcols, intercept) ==
    LET block == k \div (Len(fcols) + 1)
        coef == k % (Len(fcols) + 1)
        regressor == IF coef = 0 THEN Const ELSE fcols[coef]
    IN  IF label = [x |-> regressor, e |-> pcols[block + 1]]
        THEN (IF coef = 0 THEN PName(intercept, pcols[block + 1], NoCol)
                          ELSE PName("beta", pcols[block + 1], fcols[coef]))
        ELSE Unidentified

\* The column labels of a model's two matrices, on which alone the layout
\* of the arrays of a fit depends, and the shapes the models have: the
\* caller's matrices either way round.
Shape(model) ==
    [portfolios |-> [cols |-> model.portfolios.cols],
     factors |-> [cols |-> model.factors.cols]]

Shapes ==
    {Shape([portfolios |-> Mat("P", n), factors |-> Mat("F", k)]) :
        n \in 1..MaxN, k \in 1..MaxK}
    \cup {Shape([portfolios |-> Mat("F", k), factors |-> Mat("P", n)]) :
        n \in 1..MaxN, k \in 1..MaxK}

\* The arrays of a fit of the given model, among those computed for every
\* shape of model.
ArraysOf(arrays, model, excess_returns) ==
    CHOOSE a \in arrays :
        /\ a.shape = Shape(model)
        /\ "excess_returns" \in DOMAIN a => a.excess_returns = excess_returns

\* ------------------------------------------------------ TradedFactorModel
\* The branches of fit on cov_type that do not raise.
TradedCovTypeAccepted(cov_type) ==
    \/ cov_type \in {"robust", "heteroskedastic"}
    \/ cov_type = "kernel"

\* Degrees of freedom handed to WaldTestStatistic.
TradedJStatDF(nportfolio, nfactor) == nportfolio

TradedParamNames(model) ==
    PortfolioLoop(model.portfolios.cols, model.factors.cols, TRUE)
    \o LambdaNames(model.factors.cols)

\* The centred-factor column of the moments that belongs to a parameter of
\* the given kind (a factor's premium or mean).
FactorSlot(label, kind) ==
    IF DOMAIN label = {"fe"} THEN PName(kind, NoCol, label.fe) ELSE Unidentified

\* xe = np.c_[f_rep * eps_rep, fe]
TradedMoments(model, nobs) ==
    LET p == Ndarray(model.portfolios, nobs)
        f == Ndarray(model.factors, nobs)
        nportfolio == NColumns(p)
        nfactor == NColumns(f)
        fc == CBind(OnesColumn(nobs), f)
        fe == Centred(f)
        eps == Residuals(p)
        f_rep == TileColumns(fc, nportfolio)
        eps_tiled == TileRows(eps, nfactor + 1)
        eps_flat == RavelF(eps_tiled)
        eps_rep == ReshapeF(eps_flat, nobs, (nfactor + 1) * nportfolio)
    IN  CBind(Times(f_rep, eps_rep), fe)

\* The parameter each row (and column) of full_vcv = xpxi @ xeex @ xpxi
\* belongs to: xpxi is kron(eye(nportfolio), pinv(fc.T @ fc / nobs)) on the
\* loadings and the identity on the premia; alphas = b[:1].T, the
\* intercepts.
TradedSlots(labels, pcols, fcols) ==
    Flat([x \in 1..Len(labels) |->
            IF x <= (Len(fcols) + 1) * Len(pcols)       \* nloading
            THEN LoadingSlot(labels[x], x - 1, pcols, fcols, "alpha")
            ELSE FactorSlot(labels[x], "lambda")])

TradedFullVcv(model, nobs) ==
    TradedSlots(ColumnLabels(TradedMoments(model, nobs)),
                model.portfolios.cols, model.factors.cols)

\* order = np.reshape(np.arange((nfactor + 1) * nportfolio),
\*                    (nportfolio, nfactor + 1)).T.ravel()
TradedOrder(nportfolio, nfactor) ==
    RavelC(Transpose(ReshapeC(Arange(0, (nfactor + 1) * nportfolio),
                              nportfolio, nfactor + 1)))

\* The arrays of TradedFactorModel.fit, for every shape of model: the
\* moments, the reordering, the covariance returned and the alpha block.
TradedArrays ==
    {LET nportfolio == NCols(sh.portfolios)
            nfactor == NCols(sh.factors)
            nloading == (nfactor + 1) * nportfolio
     IN  [shape |-> sh,
          moments |-> ColumnLabels(TradedMoments(sh, NObs)),
             order |-> TradedOrder(nportfolio, nfactor),
             cov |-> TradedFullVcv(sh, NObs),
             \* vcv = full_vcv[:nloading, :nloading]
             \* vcv = vcv[order][:, order]
             \* alpha_vcv = vcv[:nportfolio, :nportfolio]
             alpha_index |-> SubSeq(TradedOrder(nportfolio, nfactor), 1, nportfolio),
             alpha_vcv |-> SubSeq(Take(SubSeq(TradedFullVcv(sh, NObs), 1, nloading),
                                       TradedOrder(nportfolio, nfactor)),
                                  1, nportfolio)]
     : sh \in Shapes}

\* The AttrDict built at the end of TradedFactorModel.fit.
TradedResult(model, cov_type) ==
    LET nportfolio == NCols(model.portfolios)
        nfactor == NCols(model.factors)
        nloading == (nfactor + 1) * nportfolio
    IN  [name |-> model.name,
         cov_type |-> cov_type,
         param_names |-> TradedParamNames(model),
         rp_names |-> model.factors.cols,
         portfolio_names |-> model.portfolios.cols,
         factor_names |-> model.factors.cols,
         params_shape |-> <<nportfolio, nfactor + 1>>,
         cov_dim |-> nloading + nfactor,
         betas_shape |-> <<nportfolio, nfactor>>,
         rp_len |-> nfactor,
         rp_cov_dim |-> nfactor,
         alphas_len |-> nportfolio,
         alpha_vcv_dim |-> nportfolio,
         jstat_df |-> TradedJStatDF(nportfolio, nfactor),
         stat |-> [kind |-> "wald"],
         inputs |-> FitInputs(model),
         moments |-> ArraysOf(TradedArrays, model, TRUE).moments,
         order |-> ArraysOf(TradedArrays, model, TRUE).order,
         cov |-> ArraysOf(TradedArrays, model, TRUE).cov,
         alpha_index |-> ArraysOf(TradedArrays, model, TRUE).alpha_index,
         alpha_vcv |-> ArraysOf(TradedArrays, model, TRUE).alpha_vcv]

\* ------------------------------------------------------ LinearFactorModel
\* Variant: the time-series count, without the K premia subtracted.
TwoPassJStatDF_TimeSeries(nportfolio, nfactor) == nportfolio

\* Degrees of freedom handed to WaldTestStatistic.
TwoPassJStatDF(nportfolio, nfactor) == nportfolio - nfactor

\* Columns of the second-pass regressor matrix betas: b[1:].T for excess
\* returns, else b.T with its first column overwritten by ones.
TwoPassBetasCols(nfactor, excess_returns) ==
    IF excess_returns THEN nfactor ELSE nfactor + 1

\* betas = betas if excess_returns else betas[:, 1:]
TwoPassReportedBetasCols(cols, excess_returns) ==
    IF excess_returns THEN cols ELSE cols - 1

TwoPassParamNames(model, excess_returns) ==
    PortfolioLoop(model.portfolios.cols, model.factors.cols, TRUE)
    \o (IF ~excess_returns THEN <<PName("lambda", NoCol, RiskFree)>> ELSE << >>)
    \o LambdaNames(model.factors.cols)

\* Variant: the insert of 'risk_free' left out.
TwoPassRpNames_NoInsert(model, excess_returns) == model.factors.cols

\* rp_names = factor_names[:]; rp_names.insert(0, 'risk_free') if not excess
TwoPassRpNames(model, excess_returns) ==
    IF ~excess_returns THEN <<RiskFree>> \o model.factors.cols
    ELSE model.factors.cols

\* What each column of the second-pass regressor matrix betas multiplies in
\* betas @ lam: the factors' premia, preceded by the risk-free premium when
\* the first column was overwritten by ones.
TwoPassBetasLabels(model, excess_returns) ==
    IF excess_returns THEN model.factors.cols
    ELSE <<RiskFree>> \o model.factors.cols

\* moments = np.c_[f_rep * eps_rep, pricing_errors @ betas,
\*                 pricing_errors - alphas.T]
TwoPassMoments(model, excess_returns, nobs) ==
    LET p == Ndarray(model.portfolios, nobs)
        f == Ndarray(model.factors, nobs)
        nportfolio == NColumns(p)
        nfactor == NColumns(f)
        fc == CBind(OnesColumn(nobs), f)
        eps == Residuals(p)
        f_rep == TileColumns(fc, nportfolio)
        eps_tiled == TileRows(eps, nfactor + 1)
        eps_rep == Transpose(ReshapeC(RavelC(Transpose(eps_tiled)),
                                      nportfolio * (nfactor + 1), nobs))
        blabels == TwoPassBetasLabels(model, excess_returns)
        pe_betas == Array([t \in 1..nobs |->
                        [l \in 1..Len(blabels) |->
                            [row |-> t, val |-> [premium |-> blabels[l]]]]])
        pe_alphas == Array([t \in 1..nobs |->
                        [c \in 1..nportfolio |->
                            [row |-> p[t][c].row, val |-> [pricing_error |-> p[t][c].val]]]])
    IN  CBind(CBind(Times(f_rep, eps_rep), pe_betas), pe_alphas)

\* The parameter each row (and column) of Ginv @ S @ Ginv.T belongs to, by
\* the blocks of G: kron(eye(nportfolio), fpf) on the first-pass
\* coefficients, betas.T @ betas on the premia, the identity on the pricing
\* errors, whose means are the alphas.
TwoPassSlots(labels, pcols, fcols, s2, s3) ==
    Flat([x \in 1..Len(labels) |->
            IF x <= s2
            THEN LoadingSlot(labels[x], x - 1, pcols, fcols, "intercept")
            ELSE IF x <= s3
            THEN (IF DOMAIN labels[x] = {"premium"}
                  THEN PName("lambda", NoCol, labels[x].premium) ELSE Unidentified)
            ELSE (IF DOMAIN labels[x] = {"pricing_error"}
                  THEN PName("alpha", labels[x].pricing_error, NoCol) ELSE Unidentified)])

TwoPassFullVcv(model, excess_returns, nobs) ==
    LET s2 == (NCols(model.factors) + 1) * NCols(model.portfolios)
        s3 == s2 + (NCols(model.factors) + Nrf(excess_returns))
    IN  TwoPassSlots(ColumnLabels(TwoPassMoments(model, excess_returns, nobs)),
                     model.portfolios.cols, model.factors.cols, s2, s3)

\* Variant: the first column of order left as it is, the first-pass
\* intercepts.
TwoPassOrder_Intercepts(nportfolio, nfactor, s2, s3) ==
    RavelC(ReshapeC(Arange(0, s2), nportfolio, nfactor + 1)) \o Arange(s2, s3)

\* order = np.reshape(np.arange(s2), (nportfolio, nfactor + 1))
\* order[:, 0] = np.arange(s3, s3 + nportfolio)
\* order = order.ravel(); order = np.r_[order, s2:s3]
TwoPassOrder(nportfolio, nfactor, s2, s3) ==
    RavelC(SetFirstColumn(ReshapeC(Arange(0, s2), nportfolio, nfactor + 1),
                          Arange(s3, s3 + nportfolio)))
    \o Arange(s2, s3)

\* The arrays of LinearFactorModel.fit, for every shape of model and both
\* values of excess_returns.
TwoPassArrays ==
    {LET nportfolio == NCols(sh.portfolios)
            nfactor == NCols(sh.factors)
            s2 == (nfactor + 1) * nportfolio
            s3 == s2 + (nfactor + Nrf(excess_returns))
     IN  [shape |-> sh, excess_returns |-> excess_returns,
          moments |-> ColumnLabels(TwoPassMoments(sh, excess_returns, NObs)),
             order |-> TwoPassOrder(nportfolio, nfactor, s2, s3),
             \* full_vcv = full_vcv[order][:, order]
             cov |-> Take(TwoPassFullVcv(sh, excess_returns, NObs),
                          TwoPassOrder(nportfolio, nfactor, s2, s3)),
             \* alpha_vcv = full_vcv[s3:, s3:], before the reordering
             alpha_index |-> Arange(s3, s3 + nportfolio),
             alpha_vcv |-> Take(TwoPassFullVcv(sh, excess_returns, NObs),
                                Arange(s3, s3 + nportfolio))]
     : sh \in Shapes, excess_returns \in BOOLEAN}

\* The AttrDict built at the end of LinearFactorModel.fit.
TwoPassResult(model, excess_returns, cov_type) ==
    LET nrf == Nrf(excess_returns)
        nfactor == NCols(model.factors)
        nportfolio == NCols(model.portfolios)
        betas_cols == TwoPassBetasCols(nfactor, excess_returns)
        lam_len == betas_cols              \* lstsq(betas, mean returns)
        s2 == (nfactor + 1) * nportfolio
        s3 == s2 + (nfactor + nrf)
        \* moments = c_[f_rep * eps_rep, pricing_errors @ betas,
        \*              pricing_errors - alphas.T]
        S_dim == s2 + betas_cols + nportfolio
        order_len == s2 + (s3 - s2)
        rbetas == TwoPassReportedBetasCols(betas_cols, excess_returns)
    IN  [name |-> model.name,
         cov_type |-> cov_type,
         param_names |-> TwoPassParamNames(model, excess_returns),
         rp_names |-> TwoPassRpNames(model, excess_returns),
         portfolio_names |-> model.portfolios.cols,
         factor_names |-> model.factors.cols,
         params_shape |-> <<nportfolio, 1 + rbetas>>,
         cov_dim |-> order_len,
         betas_shape |-> <<nportfolio, rbetas>>,
         rp_len |-> lam_len,
         rp_cov_dim |-> s3 - s2,
         alphas_len |-> nportfolio,
         alpha_vcv_dim |-> S_dim - s3,
         jstat_df |-> TwoPassJStatDF(nportfolio, nfactor),
         stat |-> [kind |-> "wald"],
         inputs |-> FitInputs(model),
         moments |-> ArraysOf(TwoPassArrays, model, excess_returns).moments,
         order |-> ArraysOf(TwoPassArrays, model, excess_returns).order,
         cov |-> ArraysOf(TwoPassArrays, model, excess_returns).cov,
         alpha_index |-> ArraysOf(TwoPassArrays, model, excess_returns).alpha_index,
         alpha_vcv |-> ArraysOf(TwoPassArrays, model, excess_returns).alpha_vcv]

\* Variant: an inverse that never raises (as numpy.linalg.pinv).
InvRaises_Never(singular) == FALSE

\* numpy.linalg.inv raises LinAlgError on a singular matrix.
InvRaises(singular) == singular

NoResult == [name |-> "none"]

\* LinearFactorModel.fit as a whole: the matrix found singular, if any, is
\* "G" (the Jacobian) or "alpha_vcv"; the inverses are taken in that order.
TwoPassFitOutcome(model, excess_returns, cov_type, singular) ==
    IF InvRaises(singular = "G")
    THEN [outcome |-> "raised", err |-> "LinAlgError:G", result |-> NoResult]
    ELSE IF InvRaises(singular = "alpha_vcv")
    THEN [outcome |-> "raised", err |-> "LinAlgError:alpha_vcv", result |-> NoResult]
    ELSE [outcome |-> "returned", err |-> "",
          result |-> TwoPassResult(model, excess_returns, cov_type)]

\* --------------------------------------------------- LinearFactorModelGMM
\* Degrees of freedom handed to WaldTestStatistic.
GMMJStatDF(n, k) == n

\* Parameter vectors are named by what produced them: id 0 is the two-pass
\* starting vector, id m the vector returned by the m-th minimization.
Vec(id, len) == [id |-> id, len |-> len]
NoVec == Vec(0, 0)

\* sv = np.r_[betas, lam, mu]
StartingValues(twopass, model) ==
    Vec(0, twopass.betas_shape[1] * twopass.betas_shape[2]
           + twopass.rp_len
           + NCols(model.factors))

\* Variant: the factor-mean block fe left out of the moments.
MomentCols_NoFactorBlock(model, excess_returns) ==
    (NCols(model.factors) + 1) * NCols(model.portfolios)

\* Columns of the moment matrix returned by _moments(parameters,
\* excess_returns).
MomentCols(model, excess_returns) ==
    LET n == NCols(model.portfolios)
        k == NCols(model.factors)
        f_cols == (k + 1) * n             \* np.tile(c_[1, f], (1, n))
        fe_cols == k
    IN  f_cols + fe_cols                  \* np.c_[eps * f, fe]

\* Shape of the matrix returned by _jacobian.
JacobianShape(model, parameters, excess_returns) ==
    LET n == NCols(model.portfolios)
        k == NCols(model.factors)
    IN  <<n * k + n + k, parameters.len>>

\* g = self._moments(parameters, excess_returns): the moment matrix, named
\* by the parameter vector it was evaluated at.
Moments(model, parameters, excess_returns) ==
    [at |-> parameters, cols |-> MomentCols(model, excess_returns)]
NoMoments == [at |-> NoVec, cols |-> 0]

\* w = inv(g.T @ g / nobs): the weighting matrix, named by the parameter
\* vector its moments were evaluated at.
WeightOf(g) == [at |-> g.at]
NoWeight == WeightOf(NoMoments)

\* The parameter vector the moments of step 1 are evaluated at, and the one
\* its minimization starts from.
FirstStepSource(sv) == sv

\* Variant: every step restarts from the starting values.
LaterStepSource_StartingValues(params, sv) == sv

\* The parameter vector the moments of a later step are evaluated at, and
\* the one its minimization starts from.
LaterStepSource(params, sv) == params

\* if np.abs(obj - last_obj) < 1e-6: break
Abs(x) == IF x < 0 THEN -x ELSE x
\* Variant: the tolerance test with <= in place of <.
ToleranceMet_Inclusive(obj, last_obj) == Abs(obj - last_obj) <= Tol
ToleranceMet(obj, last_obj) == Abs(obj - last_obj) < Tol

\* for i in range(steps - 1): whether the loop body runs once more
LoopRuns(i, steps) == i < steps - 1

\* Variant: the vector of a minimization that did not converge is dropped.
StepParams_IfSuccess(r, current) == IF r.success THEN r.x ELSE current

\* params = res.x and obj = res.fun, whatever res.success says
StepParams(r, current) == r.x
StepObjective(r, current) == r.fun

\* Variant: total -= total.mean(0), which writes into the stored array.
Demeaned_InPlace(stored) == [stored EXCEPT !.data = "demeaned"]

\* total = total - total.mean(0)[None, :]: binds a new array, the stored
\* one keeps its values
Demeaned(stored) == stored

\* g = np.c_[eps * f, fe] of _moments
GMMMoments(model, nobs) ==
    LET p == Ndarray(model.portfolios, nobs)
        n == NColumns(p)
        f0 == Ndarray(model.factors, nobs)
        k == NColumns(f0)
        fe == Centred(f0)
        eps0 == Residuals(p)
        f1 == CBind(OnesColumn(nobs), f0)
        f == TileColumns(f1, n)
        eps == Transpose(ReshapeC(RavelC(Transpose(TileRows(eps0, k + 1))),
                                  n * (k + 1), nobs))
    IN  CBind(Times(eps, f), fe)

\* What each entry of the parameter vector is, by the way _moments and
\* _jacobian take it apart: betas = reshape(parameters[:s1], (n, k)), whose
\* row i multiplies the factors in portfolio i's residual; lam =
\* parameters[s1:s2], multiplied by c_[ones((n, nrf)), betas]; mu =
\* parameters[s2:], subtracted from the factors. Row and column x of
\* inv(jac.T @ inv(s) @ jac) belong to entry x.
GMMParameterSlots(model, excess_returns) ==
    LET n == NCols(model.portfolios)
        k == NCols(model.factors)
        nrf == Nrf(excess_returns)
        s1 == n * k
        s2 == n * k + k + nrf
        betas == ReshapeC(Arange(0, s1), n, k)
        lam == (IF nrf = 1 THEN <<RiskFree>> ELSE << >>) \o model.factors.cols
    IN  Flat([x \in 1..(s2 + k) |->
            IF x <= s1
            THEN LET ij == CHOOSE ij \in (1..n) \X (1..k) : betas[ij[1]][ij[2]] = x - 1
                 IN  PName("beta", model.portfolios.cols[ij[1]], model.factors.cols[ij[2]])
            ELSE IF x <= s2
            THEN PName("lambda", NoCol, lam[x - s1])
            ELSE PName("mu", NoCol, model.factors.cols[x - s2])])

\* Variant: the slice of the first n moment columns.
GMMAlphaIndex_Leading(n, k) == Arange(0, n)

\* The index vector of the slice 0:(n * (k+1)):(k + 1)
GMMAlphaIndex(n, k) == Strided(0, n * (k + 1), k + 1)

\* The arrays of LinearFactorModelGMM.fit, for every shape of model and
\* both values of excess_returns.
GMMArrays ==
    {LET n == NCols(sh.portfolios)
            k == NCols(sh.factors)
     IN  [shape |-> sh, excess_returns |-> excess_returns,
          moments |-> ColumnLabels(GMMMoments(sh, NObs)),
             order |-> << >>,
             cov |-> GMMParameterSlots(sh, excess_returns),
             \* alphas = g.mean(0)[0:(n * (k+1)):(k + 1), None]
             \* alpha_vcv = s[0:(n * (k+1)):(k + 1), 0:(n * (k+1)):(k + 1)] / nobs
             alpha_index |-> GMMAlphaIndex(n, k),
             alpha_vcv |-> Take(ColumnLabels(GMMMoments(sh, NObs)),
                                GMMAlphaIndex(n, k))]
     : sh \in Shapes, excess_returns \in BOOLEAN}

GMMParamNames(model, excess_returns) ==
    PortfolioLoop(model.portfolios.cols, model.factors.cols, FALSE)
    \o (IF ~excess_returns THEN <<PName("lambda", NoCol, RiskFree)>> ELSE << >>)
    \o LambdaNames(model.factors.cols)
    \o MuNames(model.factors.cols)

\* The AttrDict built at the end of LinearFactorModelGMM.fit.
GMMResult(model, excess_returns, cov_type, params, stat) ==
    LET n == NCols(model.portfolios)
        k == NCols(model.factors)
        nrf == Nrf(excess_returns)
        jac == JacobianShape(model, params, excess_returns)
        param_names == GMMParamNames(model, excess_returns)
    IN  [name |-> model.name,
         cov_type |-> cov_type,
         param_names |-> param_names,
         rp_names |-> SubSeq(param_names, n * k + 1, n * k + k + nrf),
         portfolio_names |-> model.portfolios.cols,
         factor_names |-> model.factors.cols,
         params_shape |-> <<n, 1 + k>>,
         cov_dim |-> jac[2],               \* inv(jac.T @ inv(s) @ jac)
         betas_shape |-> <<n, k>>,
         rp_len |-> (n * k + k + nrf) - (n * k),
         rp_cov_dim |-> (n * k + k + nrf) - (n * k),
         alphas_len |-> n,                 \* g.mean(0)[0:n*(k+1):(k+1)]
         alpha_vcv_dim |-> n,
         jstat_df |-> GMMJStatDF(n, k),
         stat |-> stat,
         inputs |-> FitInputs(model),
         moments |-> ArraysOf(GMMArrays, model, excess_returns).moments,
         order |-> ArraysOf(GMMArrays, model, excess_returns).order,
         cov |-> ArraysOf(GMMArrays, model, excess_returns).cov,
         alpha_index |-> ArraysOf(GMMArrays, model, excess_returns).alpha_index,
         alpha_vcv |-> ArraysOf(GMMArrays, model, excess_returns).alpha_vcv]

\* scipy.optimize.minimize(self._j, start, args=(excess_returns, w), ...):
\* the m-th call returns a vector of the length of start, the objective
\* value fun at that vector under the weighting matrix w it was given, and
\* a success flag; fun and success are the minimizer's to decide.
Minimize(start, weight, m, fun, success) ==
    [x |-> Vec(m, start.len), fun |-> fun, success |-> success,
     start |-> start, w |-> weight]
NoRes == Minimize(NoVec, NoWeight, 0, 0, TRUE)

\* What the history of minimizer calls keeps of a call.
Logged(r) == [start |-> r.start, w |-> r.w, x |-> r.x, fun |-> r.fun]

\* self._j(parameters, excess_returns, w): v is a value the objective can
\* take at (parameters, w), given the values it is known to take (those the
\* minimizer calls returned).
JValue(known, parameters, weight, v) ==
    \A m \in 1..Len(known) :
        (known[m].x = parameters /\ known[m].w = weight) => v = known[m].fun

\* ------------------------------------------------------------------ state
VARIABLES
    given,      \* the caller's matrices and how the constructor was called
    self,       \* the model object's attributes
    pc,         \* "idle", or inside LinearFactorModelGMM.fit: "step1", "loop"
    opts,       \* the arguments of the current (or last) fit call
    outcome,    \* of the last fit call: "none", "returned", "raised"
    err,        \* the exception raised
    result,     \* the result bundle returned
    singular,   \* the matrix inv found singular in the last step, or "none"
    sv,         \* GMM fit locals
    g,
    params,
    w,
    last_obj,
    obj,
    i,
    res,
    broke,      \* whether the step loop was left by break
    calls       \* the minimizer calls of the current fit, in order

vars == <<given, self, pc, opts, outcome, err, result, singular,
          sv, g, params, w, last_obj, obj, i, res, broke, calls>>

gmmLocals == <<sv, g, params, w, last_obj, obj, i, res, broke, calls>>

Init ==
    \E cls \in Estimators, style \in CallStyles, np \in 1..MaxN, nf \in 1..MaxK :
        /\ given = [portfolios |-> Mat("P", np), factors |-> Mat("F", nf),
                    style |-> style]
        /\ self = Construct(cls, style, Mat("P", np), Mat("F", nf))
        /\ pc = "idle"
        /\ opts = [cov_type |-> "robust"]
        /\ outcome = "none"
        /\ err = ""
        /\ result = NoResult
        /\ singular = "none"
        /\ sv = NoVec
        /\ g = NoMoments
        /\ params = NoVec
        /\ w = NoWeight
        /\ last_obj = 0
        /\ obj = 0
        /\ i = 0
        /\ res = NoRes
        /\ broke = FALSE
        /\ calls = << >>

\* ---------------------------------------------------------------- actions
\* TradedFactorModel.fit(cov_type)
TradedFit ==
    \E cov_type \in CovTypes :
        /\ pc = "idle"
        /\ self.cls = "TradedFactorModel"
        /\ opts' = [cov_type |-> cov_type]
        /\ singular' = "none"
        /\ IF TradedCovTypeAccepted(cov_type)
           THEN /\ outcome' = "returned"
                /\ err' = ""
                /\ result' = TradedResult(self, cov_type)
           ELSE /\ outcome' = "raised"
                /\ err' = "ValueError"
                /\ result' = NoResult
        /\ UNCHANGED <<given, self, pc, gmmLocals>>

\* LinearFactorModel.fit(excess_returns, cov_type)
TwoPassFit ==
    \E excess_returns \in BOOLEAN, cov_type \in CovTypes,
       sing \in {"none", "G", "alpha_vcv"} :
        /\ pc = "idle"
        /\ self.cls = "LinearFactorModel"
        /\ opts' = [excess_returns |-> excess_returns, cov_type |-> cov_type]
        /\ singular' = sing
        /\ LET out == TwoPassFitOutcome(self, excess_returns, cov_type, sing)
           IN  /\ outcome' = out.outcome
               /\ err' = out.err
               /\ result' = out.result
        /\ UNCHANGED <<given, self, pc, gmmLocals>>

\* The locals of a fit call that has ended are gone.
LocalsGone ==
    /\ sv' = NoVec /\ g' = NoMoments /\ params' = NoVec /\ w' = NoWeight
    /\ last_obj' = 0 /\ obj' = 0 /\ i' = 0
    /\ res' = NoRes /\ broke' = FALSE /\ calls' = << >>

\* LinearFactorModelGMM.fit(excess_returns, steps, cov_type) up to the first
\* weighting matrix: starting values from the two-pass estimator, the
\* moments at the starting values, w = inv(g.T @ g / nobs).
GMMCall ==
    \E excess_returns \in BOOLEAN, steps \in 1..MaxSteps, cov_type \in CovTypes,
       sing \in {"none", "G", "alpha_vcv", "w"} :
        /\ pc = "idle"
        /\ self.cls = "LinearFactorModelGMM"
        /\ opts' = [excess_returns |-> excess_returns, steps |-> steps,
                    cov_type |-> cov_type]
        /\ singular' = sing
        /\ result' = NoResult
        /\ LET mod == LinearInit("LinearFactorModel", self.portfolios,
                                 self.factors, "None")
               tp == TwoPassFitOutcome(mod, excess_returns, "robust", sing)
               sv0 == StartingValues(tp.result, self)
               g0 == Moments(self, FirstStepSource(sv0), excess_returns)
           IN  IF tp.outcome = "raised"
               THEN /\ outcome' = "raised"
                    /\ err' = tp.err
                    /\ pc' = "idle"
                    /\ LocalsGone
               ELSE IF InvRaises(sing = "w")
               THEN /\ outcome' = "raised"
                    /\ err' = "LinAlgError:w"
                    /\ pc' = "idle"
                    /\ LocalsGone
               ELSE /\ outcome' = "none"
                    /\ err' = ""
                    /\ pc' = "step1"
                    /\ sv' = sv0
                    /\ g' = g0
                    /\ w' = WeightOf(g0)
                    /\ UNCHANGED <<params, last_obj, obj, i, res, broke, calls>>
        /\ UNCHANGED <<given, self>>

\* Step 1: the first minimization, from the starting values.
GMMStep1 ==
    \E fun \in ObjVals, success \in BOOLEAN :
        /\ pc = "step1"
        /\ LET r == Minimize(FirstStepSource(sv), w, 1, fun, success)
           IN  /\ res' = r
               /\ params' = StepParams(r, sv)
               /\ last_obj' = StepObjective(r, last_obj)
               /\ calls' = <<Logged(r)>>
        /\ pc' = "loop"
        /\ UNCHANGED <<given, self, opts, outcome, err, result, singular,
                       sv, g, w, obj, i, broke>>

\* One pass of the body of `for i in range(steps - 1)`.
GMMIter ==
    \E sing \in {"none", "w"}, fun \in ObjVals, success \in BOOLEAN :
        /\ pc = "loop"
        /\ ~broke
        /\ LoopRuns(i, opts.steps)
        /\ singular' = sing
        /\ LET src == LaterStepSource(params, sv)
               g1 == Moments(self, src, opts.excess_returns)
               r == Minimize(src, WeightOf(g1), Len(calls) + 1, fun, success)
               o1 == StepObjective(r, obj)
           IN  IF InvRaises(sing = "w")
               THEN /\ outcome' = "raised"
                    /\ err' = "LinAlgError:w"
                    /\ pc' = "idle"
                    /\ LocalsGone
               ELSE /\ g' = g1
                    /\ w' = r.w
                    /\ res' = r
                    /\ params' = StepParams(r, params)
                    /\ obj' = o1
                    /\ calls' = Append(calls, Logged(r))
                    /\ IF ToleranceMet(o1, last_obj)
                       THEN /\ broke' = TRUE
                            /\ UNCHANGED <<last_obj, i>>
                       ELSE /\ last_obj' = o1
                            /\ i' = i + 1
                            /\ broke' = FALSE
                    /\ UNCHANGED <<outcome, err, pc, sv>>
        /\ UNCHANGED <<given, self, opts, result>>

\* LinearFactorModelGMM.fit after the step loop: inference and the result.
GMMFinal ==
    \E sing \in {"none", "S", "JSJ"}, v \in ObjVals :
        /\ pc = "loop"
        /\ IF broke THEN TRUE ELSE ~LoopRuns(i, opts.steps)
        /\ singular' = sing
        /\ pc' = "idle"
        /\ IF InvRaises(sing = "S")
           THEN /\ outcome' = "raised"
                /\ err' = "LinAlgError:S"
                /\ result' = NoResult
                /\ self' = self
           ELSE IF InvRaises(sing = "JSJ")
           THEN /\ outcome' = "raised"
                /\ err' = "LinAlgError:JSJ"
                /\ result' = NoResult
                /\ self' = self
           ELSE /\ JValue(calls, params, w, v)
                /\ outcome' = "returned"
                /\ err' = ""
                /\ result' = GMMResult(self, opts.excess_returns, opts.cov_type, params,
                                [kind |-> "objective", params |-> params,
                                 w |-> w, value |-> v])
                /\ self' = [self EXCEPT !.portfolios = Demeaned(@)]
        /\ LocalsGone
        /\ UNCHANGED <<given, opts>>

Next ==
    \/ TradedFit
    \/ TwoPassFit
    \/ GMMCall
    \/ GMMStep1
    \/ GMMIter
    \/ GMMFinal

Spec == Init /\ [][Next]_vars

\* ------------------------------------------------------------- properties
\* Shorthands: the model's numbers of portfolios and of factors, and the
\* states in which a fit call has returned.
N == NCols(self.portfolios)
K == NCols(self.factors)
Returned(cls) == pc = "idle" /\ outcome = "returned" /\ self.cls = cls

\* C1: the J-statistic of a returned fit has N degrees of freedom for the
\* time-series estimator, N - K for the two-pass estimator and N for the
\* GMM estimator, whatever the options (N, K: the columns of the model's
\* portfolio and factor matrices).
C1_JStatDegreesOfFreedom ==
    /\ Returned("TradedFactorModel") => result.jstat_df = N
    /\ Returned("LinearFactorModel") => result.jstat_df = N - K
    /\ Returned("LinearFactorModelGMM") => result.jstat_df = N

C1_Witness ==
    /\ Returned("LinearFactorModel")
    /\ ~opts.excess_returns
    /\ N = 2 /\ K = 1
    /\ result.jstat_df = 1

\* |objective_m - objective_{m-1}| of the current fit's minimizations
ObjectiveChange(m) == Abs(calls[m].fun - calls[m - 1].fun)

C2_LoopState ==
    /\ pc = "step1" => calls = << >>
    /\ pc = "loop" =>
        /\ Len(calls) >= 1
        /\ Len(calls) <= opts.steps
        /\ broke <=> (Len(calls) >= 2 /\ ObjectiveChange(Len(calls)) < Tol)
        /\ \A m \in 2..(Len(calls) - 1) : ObjectiveChange(m) >= Tol

C2_LoopStep ==
    \* a further minimization runs only while not converged and below steps
    /\ (pc = "loop" /\ pc' = "loop") =>
        /\ Len(calls') = Len(calls) + 1
        /\ ~broke
        /\ Len(calls) < opts.steps
    \* the loop is left for inference only when converged or steps exhausted
    /\ (pc = "loop" /\ pc' = "idle" /\ err' # "LinAlgError:w") =>
        (broke \/ Len(calls) = opts.steps)
    \* and then, no inverse failing, a result is returned
    /\ (pc = "loop" /\ pc' = "idle" /\ singular' = "none") =>
        (outcome' = "returned" /\ result' # NoResult)

\* C2: with steps >= 1 the GMM step loop performs at most `steps`
\* minimizations; it stops early after minimization s exactly when s >= 2
\* and |objective_s - objective_{s-1}| < 1e-6 (never after the first one);
\* otherwise it performs exactly `steps` minimizations and returns a result.
C2_StepLoopTerminates == [](C2_LoopState) /\ [][C2_LoopStep]_vars

C2_Witness ==
    /\ pc = "loop" /\ broke
    /\ opts.steps = 3 /\ Len(calls) = 2

\* C3 (as claimed): a fit call with a cov_type other than 'robust' and
\* 'kernel' ends in ValueError without a result, for each estimator, and a
\* recognized name never ends in that error (calls in which no inverse
\* fails).
C3_UnknownCovTypeRaises ==
    (pc = "idle" /\ outcome \in {"returned", "raised"} /\ singular = "none") =>
        /\ opts.cov_type \notin {"robust", "kernel"} =>
            (outcome = "raised" /\ err = "ValueError" /\ result = NoResult)
        /\ opts.cov_type \in {"robust", "kernel"} => err # "ValueError"

LambdaRiskFree == PName("lambda", NoCol, RiskFree)

\* C4: a returned two-pass fit has no risk-free entry among its parameter
\* names, premia names and premia (K each) when excess_returns is true; when
\* it is false, 'lambda-risk_free' appears once, right before the K factor
\* lambdas, 'risk_free' is the first premia name, the premia and their
\* covariance have K + 1 entries and the reported betas K columns; the
\* premia names are as many as the premia in both cases.
C4_RiskFreeEntries ==
    Returned("LinearFactorModel") =>
        LET names == result.param_names
            base == N * (K + 1)
        IN  /\ Len(result.rp_names) = result.rp_len
            /\ result.betas_shape = <<N, K>>
            /\ opts.excess_returns =>
                /\ \A j \in 1..Len(names) : names[j] # LambdaRiskFree
                /\ \A j \in 1..Len(result.rp_names) : result.rp_names[j] # RiskFree
                /\ Len(names) = base + K
                /\ result.rp_len = K
                /\ result.rp_cov_dim = K
            /\ ~opts.excess_returns =>
                /\ {j \in 1..Len(names) : names[j] = LambdaRiskFree} = {base + 1}
                /\ \A j \in 1..K :
                      names[base + 1 + j] = PName("lambda", NoCol, self.factors.cols[j])
                /\ Len(names) = base + 1 + K
                /\ result.rp_names[1] = RiskFree
                /\ \A j \in 2..Len(result.rp_names) : result.rp_names[j] # RiskFree
                /\ result.rp_len = K + 1
                /\ result.rp_cov_dim = K + 1

C4_Witness ==
    /\ Returned("LinearFactorModel")
    /\ ~opts.excess_returns
    /\ N = 1 /\ K = 2
    /\ result.rp_names[1] = RiskFree

C5_AfterMinimization ==
    pc = "loop" =>
        /\ params = res.x
        /\ res.fun = (IF Len(calls) = 1 THEN last_obj ELSE obj)
        /\ outcome = "none" /\ err = ""

C5_NextUse ==
    \* the next step evaluates its moments at, and starts from, the vector
    \* returned, and compares its objective with the one returned
    /\ (pc = "loop" /\ pc' = "loop") =>
        /\ g'.at = res.x
        /\ res'.start = res.x
        /\ broke' <=> (Abs(res'.fun - res.fun) < Tol)
    \* final inference is made at the vector returned
    /\ (pc = "loop" /\ pc' = "idle" /\ singular' = "none") =>
        /\ outcome' = "returned"
        /\ result'.stat.params = res.x
        /\ result'.stat.value = res.fun

\* C5: whatever the success flag of a minimizer call, its vector and
\* objective value become the step's result: the fit does not raise on it,
\* the next step starts from that vector and tests against that value, and
\* the result returned is computed at that vector.
C5_NonConvergenceIsUsed == [](C5_AfterMinimization) /\ [][C5_NextUse]_vars

C5_Witness ==
    /\ pc = "loop"
    /\ ~res.success
    /\ Len(calls) = 2 /\ ~broke
    /\ params = res.x /\ last_obj = res.fun

ResultFields ==
    {"name", "cov_type", "param_names", "rp_names", "portfolio_names",
     "factor_names", "params_shape", "cov_dim", "betas_shape", "rp_len",
     "rp_cov_dim", "alphas_len", "alpha_vcv_dim", "jstat_df", "stat", "inputs",
     "moments", "order", "cov", "alpha_index", "alpha_vcv"}

SingularError(matrix) ==
    CASE matrix = "G" -> "LinAlgError:G"
      [] matrix = "alpha_vcv" -> "LinAlgError:alpha_vcv"
      [] matrix = "w" -> "LinAlgError:w"
      [] matrix = "S" -> "LinAlgError:S"
      [] matrix = "JSJ" -> "LinAlgError:JSJ"

C6_Outcomes ==
    /\ pc # "idle" => (outcome = "none" /\ result = NoResult)
    /\ outcome = "raised" => (pc = "idle" /\ result = NoResult)
    /\ outcome = "returned" =>
        (pc = "idle" /\ singular = "none" /\ DOMAIN result = ResultFields)
    /\ singular # "none" =>
        (pc = "idle" /\ outcome = "raised" /\ err = SingularError(singular)
         /\ result = NoResult)

C6_RaisingStep ==
    singular' # "none" =>
        /\ pc' = "idle"
        /\ self' = self
        /\ Len(calls') <= Len(calls)      \* no minimization after the failure

\* C6: a fit call ends with a complete result bundle or with an error and
\* no result; when a matrix handed to inv is singular (two-pass G or
\* alpha_vcv, GMM w at any step, final S, jac' S^-1 jac) the call ends there
\* in that error, without a further minimization, without a result and with
\* the model object as it was.
C6_SingularMatrixRaises == [](C6_Outcomes) /\ [][C6_RaisingStep]_vars

C6_Witness ==
    /\ self.cls = "LinearFactorModelGMM"
    /\ pc = "idle" /\ outcome = "raised"
    /\ singular = "JSJ" /\ err = "LinAlgError:JSJ"
    /\ result = NoResult

InGMMFit == self.cls = "LinearFactorModelGMM" /\ pc \in {"step1", "loop"}

\* C7 (as claimed): the moment matrix has K(K+1) + N(K+1) + K columns, that
\* is the length of the parameter vector plus N, and the Jacobian has as
\* many rows and one column per parameter.
C7_MomentColumnsAsClaimed ==
    InGMMFit =>
        /\ g.cols = K * (K + 1) + N * (K + 1) + K
        /\ g.cols = g.at.len + N
        /\ JacobianShape(self, g.at, opts.excess_returns) = <<g.cols, g.at.len>>

\* C7 (amended): the moment matrix has N(K+1) + K columns; the parameter
\* vector [betas, lambda, mu] has N K + (K + nrf) + K entries (nrf = 0 for
\* excess returns, else 1), so the columns are the parameters plus
\* N - K - nrf; the Jacobian has as many rows as the moment matrix has
\* columns and one column per parameter.
C7_MomentColumns ==
    InGMMFit =>
        LET nrf == IF opts.excess_returns THEN 0 ELSE 1
        IN  /\ g.cols = N * (K + 1) + K
            /\ g.at.len = N * K + (K + nrf) + K
            /\ g.cols = g.at.len + (N - K - nrf)
            /\ JacobianShape(self, g.at, opts.excess_returns) = <<g.cols, g.at.len>>

C7_Witness ==
    /\ InGMMFit
    /\ ~opts.excess_returns
    /\ N = 2 /\ K = 1
    /\ g.at.id = 1
    /\ g.cols = 5 /\ g.at.len = 5

AsConstructed == Construct(self.cls, given.style, given.portfolios, given.factors)

C8_StoredState ==
    /\ self = AsConstructed
    /\ (pc = "idle" /\ outcome = "returned") =>
        /\ result.inputs = FitInputs(AsConstructed)
        /\ result.inputs.portfolios.data = "raw"
        /\ result.inputs.factors.data = "raw"

\* C8: no step of any fit, returning or raising, changes an attribute of
\* the model object, so every fit call starts from the model as constructed
\* and computes its result from the data as constructed, whatever fits ran
\* before.
C8_FitLeavesModelUnchanged == [](C8_StoredState) /\ [][self' = self]_vars

C8_Witness ==
    /\ Returned("LinearFactorModelGMM")
    /\ opts.steps = 2
    /\ self = AsConstructed
    /\ result.inputs.portfolios.data = "raw"

\* C9 (as claimed): the matrix the caller supplies as portfolios is the one
\* stored and used as the portfolio matrix, the one supplied as factors the
\* one stored and used as the factor matrix, for a positional and for a
\* keyword call of each constructor.
C9_ArgumentsBoundAsNamed ==
    /\ self.portfolios.src = given.portfolios.src
    /\ self.portfolios.cols = given.portfolios.cols
    /\ self.factors.src = given.factors.src
    /\ self.factors.cols = given.factors.cols
    /\ (pc = "idle" /\ outcome = "returned") =>
        /\ result.portfolio_names = given.portfolios.cols
        /\ result.factor_names = given.factors.cols

C10_DataFlow ==
    /\ pc = "step1" => (g.at = sv /\ w.at = sv)
    /\ pc = "loop" =>
        /\ calls[1].start = sv
        /\ calls[1].w.at = sv
        /\ \A m \in 2..Len(calls) :
              /\ calls[m].start = calls[m - 1].x
              /\ calls[m].w.at = calls[m - 1].x
        /\ w = calls[Len(calls)].w
        /\ params = calls[Len(calls)].x
    /\ Returned("LinearFactorModelGMM") =>
        /\ result.stat.params.id >= 1
        /\ result.stat.w.at.id = result.stat.params.id - 1

C10_ReportedStatistic ==
    (pc = "loop" /\ pc' = "idle" /\ outcome' = "returned") =>
        LET last == calls[Len(calls)]
        IN  /\ result'.stat.params = last.x
            /\ result'.stat.w = last.w
            /\ result'.stat.value = last.fun

\* C10: step 1 takes its weighting matrix at, and starts from, the two-pass
\* starting vector; every later step takes its weighting matrix at, and
\* starts from, the vector returned by the step before; the J-statistic is
\* the objective at the final vector under the weighting matrix of the last
\* minimization performed, hence that minimization's objective value, also
\* after an early stop.
C10_SequentialSteps == [](C10_DataFlow) /\ [][C10_ReportedStatistic]_vars

C10_Witness ==
    /\ Returned("LinearFactorModelGMM")
    /\ opts.steps = 3
    /\ result.stat.params.id = 2
    /\ result.stat.w.at.id = 1

\* The names the claim lists, built position by position: per portfolio the
\* alpha (when the estimator reports it there) and the K betas, then the
\* premia, then the factor means (GMM).
ListedNames(withAlpha, nrf, withMu) ==
    LET width == IF withAlpha THEN K + 1 ELSE K
        pcols == self.portfolios.cols
        fcols == self.factors.cols
    IN  [x \in 1..(N * width + nrf + K + (IF withMu THEN K ELSE 0)) |->
            IF x <= N * width
            THEN LET blk == ((x - 1) \div width) + 1
                     pos == (x - 1) % width
                 IN  IF withAlpha /\ pos = 0 THEN PName("alpha", pcols[blk], NoCol)
                     ELSE PName("beta", pcols[blk],
                                fcols[IF withAlpha THEN pos ELSE pos + 1])
            ELSE IF x <= N * width + nrf THEN PName("lambda", NoCol, RiskFree)
            ELSE IF x <= N * width + nrf + K
            THEN PName("lambda", NoCol, fcols[x - N * width - nrf])
            ELSE PName("mu", NoCol, fcols[x - N * width - nrf - K])]

\* C11: the covariance matrix of a returned fit is square of dimension
\* len(param_names) and its k-th row and column are the covariance slot of
\* the k-th name. Time-series: per portfolio (alpha, K betas), then K
\* lambdas. Two-pass: per portfolio (alpha, K betas), then K (+1) lambdas;
\* the reordering index vector is injective, sends position i (K+1) to the
\* pricing-error index s3 + i and selects no first-pass intercept index.
\* GMM: N K betas, K (+1) lambdas, K mus.
C11_CovarianceFollowsParamNames ==
    (pc = "idle" /\ outcome = "returned") =>
        LET nrf == IF self.cls = "TradedFactorModel" THEN 0
                   ELSE IF opts.excess_returns THEN 0 ELSE 1
            s2 == N * (K + 1)
            s3 == s2 + K + nrf
            order == result.order
        IN  /\ result.cov_dim = Len(result.param_names)
            /\ Len(result.cov) = Len(result.param_names)
            /\ \A x \in 1..Len(result.param_names) :
                  result.cov[x] = result.param_names[x]
            /\ self.cls = "TradedFactorModel" =>
                  result.param_names = ListedNames(TRUE, 0, FALSE)
            /\ self.cls = "LinearFactorModel" =>
                  /\ result.param_names = ListedNames(TRUE, nrf, FALSE)
                  /\ Len(order) = Len(result.param_names)
                  /\ \A x, y \in 1..Len(order) : order[x] = order[y] => x = y
                  /\ \A p \in 0..(N - 1) : order[p * (K + 1) + 1] = s3 + p
                  /\ \A x \in 1..Len(order), p \in 0..(N - 1) :
                        order[x] # p * (K + 1)
            /\ self.cls = "LinearFactorModelGMM" =>
                  result.param_names = ListedNames(FALSE, nrf, TRUE)

C11_Witness ==
    /\ Returned("LinearFactorModel")
    /\ ~opts.excess_returns
    /\ N = 2 /\ K = 2
    /\ result.order = <<9, 1, 2, 10, 4, 5, 6, 7, 8>>
    /\ result.cov[4] = PName("alpha", self.portfolios.cols[2], NoCol)
    /\ result.cov[7] = PName("lambda", NoCol, RiskFree)

\* Moment column i (K+1) + j (0-based) as the claim lists it: regressor j of
\* [1, factors] times the residual of portfolio i.
ListedMoment(x) ==
    LET blk == x \div (K + 1)
        reg == x % (K + 1)
    IN  [x |-> IF reg = 0 THEN Const ELSE self.factors.cols[reg],
         e |-> self.portfolios.cols[blk + 1]]

\* The intercept positions 0, K+1, 2(K+1), ..., (N-1)(K+1).
InterceptPositions == [x \in 1..N |-> (x - 1) * (K + 1)]

\* C12: in a returned fit of each estimator the first N (K+1) moment
\* columns are laid out by portfolio: column i (K+1) + j is regressor j of
\* [1, factors] times the residual of portfolio i. The alpha covariance is
\* read, entry by entry, from the alpha slots of the portfolios in their
\* order: in the time-series estimator the reordering is a permutation of
\* 0..N(K+1)-1 whose first N entries are the intercept positions i (K+1),
\* so the leading N x N block read is the alpha block; in GMM the alphas
\* and their covariance are read from exactly the moment columns 0, K+1,
\* ..., (N-1)(K+1), the intercept moments; in the two-pass estimator from
\* the N pricing-error slots.
C12_PortfolioGroupedLayout ==
    (pc = "idle" /\ outcome = "returned") =>
        /\ Len(result.moments) >= N * (K + 1)
        /\ \A x \in 0..(N * (K + 1) - 1) : result.moments[x + 1] = ListedMoment(x)
        /\ Len(result.alpha_vcv) = N
        /\ self.cls = "TradedFactorModel" =>
              /\ Len(result.order) = N * (K + 1)
              /\ {result.order[x] : x \in 1..Len(result.order)} = 0..(N * (K + 1) - 1)
              /\ SubSeq(result.order, 1, N) = InterceptPositions
              /\ result.alpha_index = InterceptPositions
              /\ \A x \in 1..N :
                    result.alpha_vcv[x] = PName("alpha", self.portfolios.cols[x], NoCol)
        /\ self.cls = "LinearFactorModelGMM" =>
              /\ result.alpha_index = InterceptPositions
              /\ \A x \in 1..N :
                    result.alpha_vcv[x] = [x |-> Const, e |-> self.portfolios.cols[x]]
        /\ self.cls = "LinearFactorModel" =>
              \A x \in 1..N :
                  result.alpha_vcv[x] = PName("alpha", self.portfolios.cols[x], NoCol)

C12_Witness ==
    /\ Returned("LinearFactorModelGMM")
    /\ N = 2 /\ K = 2
    /\ result.alpha_index = <<0, 3>>
    /\ result.moments[4] = [x |-> Const, e |-> self.portfolios.cols[2]]
    /\ result.moments[6] = [x |-> self.factors.cols[2], e |-> self.portfolios.cols[2]]

====
